---- MODULE Spec2Model ----
(***************************************************************************)
(* The paper pipeline of drl-missile-tracker as a state machine: the       *)
(* scoring run of analysis/paper_scorer.py (score_paper,                   *)
(* score_papers_batch and the __main__ block), and the entry points of     *)
(* fetch_from_excel.py and fetch_missing_semantic.py.                      *)
(*                                                                         *)
(* A text (a completion reply, a CSV cell, a dictionary key) is a sequence *)
(* of one-character strings, so that str.split, the "in" test, str.strip   *)
(* and json.loads are computed character by character as Python computes   *)
(* them.  A Python dict is a function from keys (texts) to values; a value *)
(* is a record tagged by its Python type.                                  *)
(***************************************************************************)
EXTENDS Integers, Sequences, FiniteSets, TLC

----------------------------------------------------------------------------
(* Python values *)

StrV(s) == [t |-> "str", s |-> s]
IntV(n) == [t |-> "int", n |-> n]
BoolV(b) == [t |-> "bool", b |-> b]
ObjV(o) == [t |-> "obj", o |-> o]
NullV == [t |-> "null"]
\* the float NaN pandas puts in an empty cell and in a missing column
NaN == [t |-> "nan"]

EmptyDict == [k \in {} |-> NullV]
\* dict.get(k, default)
Get(d, k, default) == IF k \in DOMAIN d THEN d[k] ELSE default
\* d[k] = v
SetItem(d, k, v) == [x \in (DOMAIN d) \cup {k} |-> IF x = k THEN v ELSE d[x]]

----------------------------------------------------------------------------
(* Text constants *)

\* the grave accent, written by its code point (the character itself cannot
\* stand in a string of this notation)
TICK == "U+0060"
FENCE == <<TICK, TICK, TICK>>
FENCE_JSON == <<TICK, TICK, TICK, "j","s","o","n">>
QUOTE == "\""
WS == {" ", "\n"}
Digits == {"0","1","2","3","4","5","6","7","8","9"}

K_title == <<"t","i","t","l","e">>
K_url == <<"u","r","l">>
K_source == <<"s","o","u","r","c","e">>
K_search_title == <<"s","e","a","r","c","h","_","t","i","t","l","e">>
K_relevance_score == <<"r","e","l","e","v","a","n","c","e","_","s","c","o","r","e">>
K_maturity_level == <<"m","a","t","u","r","i","t","y","_","l","e","v","e","l">>
K_credibility_score == <<"c","r","e","d","i","b","i","l","i","t","y","_","s","c","o","r","e">>
K_integration_score == <<"i","n","t","e","g","r","a","t","i","o","n","_","s","c","o","r","e">>
K_chinese_defense == <<"c","h","i","n","e","s","e","_","d","e","f","e","n","s","e">>
K_reasoning == <<"r","e","a","s","o","n","i","n","g">>
K_authors == <<"a","u","t","h","o","r","s">>
K_published == <<"p","u","b","l","i","s","h","e","d">>
K_abstract == <<"a","b","s","t","r","a","c","t">>
K_tokens_used == <<"t","o","k","e","n","s","_","u","s","e","d">>

----------------------------------------------------------------------------
(* str operations of score_paper *)

\* str.find(sep, from): the first position >= from where sep occurs, 0 if none
IndexOf(s, sep, from) ==
    LET hits == {i \in from..(Len(s) - Len(sep) + 1) :
                    \A k \in 1..Len(sep) : s[i + k - 1] = sep[k]}
    IN  IF hits = {} THEN 0 ELSE CHOOSE i \in hits : \A j \in hits : i <= j

\* sep in s
Contains(s, sep) == IndexOf(s, sep, 1) # 0

RECURSIVE PySplit(_, _)
\* s.split(sep): the pieces between the non-overlapping occurrences of sep,
\* found left to right
PySplit(s, sep) ==
    LET i == IndexOf(s, sep, 1)
    IN  IF i = 0 THEN <<s>>
        ELSE <<SubSeq(s, 1, i - 1)>> \o PySplit(SubSeq(s, i + Len(sep), Len(s)), sep)

RECURSIVE SkipWs(_, _)
SkipWs(s, i) == IF i <= Len(s) /\ s[i] \in WS THEN SkipWs(s, i + 1) ELSE i

RECURSIVE RSkipWs(_, _)
RSkipWs(s, i) == IF i >= 1 /\ s[i] \in WS THEN RSkipWs(s, i - 1) ELSE i

\* s.strip()
Strip(s) == SubSeq(s, SkipWs(s, 1), RSkipWs(s, Len(s)))

\* lines 46-49: the text between the first fence and the next one
StripFence(response_text) ==
    IF Contains(response_text, FENCE_JSON)
    THEN PySplit(PySplit(response_text, FENCE_JSON)[2], FENCE)[1]
    ELSE IF Contains(response_text, FENCE)
    THEN PySplit(PySplit(response_text, FENCE)[2], FENCE)[1]
    ELSE response_text

----------------------------------------------------------------------------
(* json.loads on the texts of this model: objects, strings without escapes, *)
(* integers and the literals true, false and null                           *)

Fail == [ok |-> FALSE, val |-> NullV, nxt |-> 0]
Ok(v, n) == [ok |-> TRUE, val |-> v, nxt |-> n]

DigitVal(c) ==
    CASE c = "0" -> 0 [] c = "1" -> 1 [] c = "2" -> 2 [] c = "3" -> 3
      [] c = "4" -> 4 [] c = "5" -> 5 [] c = "6" -> 6 [] c = "7" -> 7
      [] c = "8" -> 8 [] c = "9" -> 9

\* a string: up to the next quote; a raw control character is an error
ParseString(s, i) ==
    LET j == IndexOf(s, <<QUOTE>>, i + 1)
    IN  IF j = 0 THEN Fail
        ELSE IF \E k \in (i + 1)..(j - 1) : s[k] = "\n" THEN Fail
        ELSE Ok(StrV(SubSeq(s, i + 1, j - 1)), j + 1)

RECURSIVE ScanDigits(_, _, _)
ScanDigits(s, i, acc) ==
    IF i <= Len(s) /\ s[i] \in Digits
    THEN ScanDigits(s, i + 1, acc * 10 + DigitVal(s[i]))
    ELSE [n |-> acc, nxt |-> i]

\* an integer: -?(0|[1-9][0-9]*)
ParseNumber(s, i) ==
    LET neg == s[i] = "-"
        st == IF neg THEN i + 1 ELSE i
    IN  IF st > Len(s) \/ s[st] \notin Digits THEN Fail
        ELSE IF s[st] = "0" THEN Ok(IntV(0), st + 1)
        ELSE LET r == ScanDigits(s, st, 0)
             IN  Ok(IntV(IF neg THEN 0 - r.n ELSE r.n), r.nxt)

ParseLiteral(s, i, word, v) ==
    IF i + Len(word) - 1 <= Len(s) /\ SubSeq(s, i, i + Len(word) - 1) = word
    THEN Ok(v, i + Len(word))
    ELSE Fail

RECURSIVE ParseValue(_, _)
RECURSIVE ParseMembers(_, _, _)

\* the members of an object from a key at i on; a repeated key keeps the
\* last value
ParseMembers(s, i, acc) ==
    IF i > Len(s) \/ s[i] # QUOTE THEN Fail
    ELSE LET k == ParseString(s, i)
         IN  IF ~k.ok THEN Fail
             ELSE LET c == SkipWs(s, k.nxt)
                  IN  IF c > Len(s) \/ s[c] # ":" THEN Fail
                      ELSE LET v == ParseValue(s, SkipWs(s, c + 1))
                           IN  IF ~v.ok THEN Fail
                               ELSE LET e == SkipWs(s, v.nxt)
                                        acc2 == SetItem(acc, k.val.s, v.val)
                                    IN  IF e > Len(s) THEN Fail
                                        ELSE IF s[e] = "}" THEN Ok(ObjV(acc2), e + 1)
                                        ELSE IF s[e] = ","
                                        THEN ParseMembers(s, SkipWs(s, e + 1), acc2)
                                        ELSE Fail

ParseValue(s, i) ==
    IF i > Len(s) THEN Fail
    ELSE IF s[i] = QUOTE THEN ParseString(s, i)
    ELSE IF s[i] = "{"
    THEN LET m == SkipWs(s, i + 1)
         IN  IF m <= Len(s) /\ s[m] = "}" THEN Ok(ObjV(EmptyDict), m + 1)
             ELSE ParseMembers(s, m, EmptyDict)
    ELSE IF s[i] = "t" THEN ParseLiteral(s, i, <<"t","r","u","e">>, BoolV(TRUE))
    ELSE IF s[i] = "f" THEN ParseLiteral(s, i, <<"f","a","l","s","e">>, BoolV(FALSE))
    ELSE IF s[i] = "n" THEN ParseLiteral(s, i, <<"n","u","l","l">>, NullV)
    ELSE IF s[i] = "-" \/ s[i] \in Digits THEN ParseNumber(s, i)
    ELSE Fail

\* json.loads(text): one value, then nothing but whitespace
JsonLoads(text) ==
    LET r == ParseValue(text, SkipWs(text, 1))
    IN  IF r.ok /\ SkipWs(text, r.nxt) = Len(text) + 1 THEN r ELSE Fail

----------------------------------------------------------------------------
(* Bounds and inputs *)

\* the longest input CSV of a scoring run
MaxPapers == 2
\* the longest title list of a title-lookup run
MaxTitles == 2
\* the most results one arXiv query returns
MaxResults == 1
\* the rows nlargest(5, ...) keeps for the summary
TopN == 5

UNKNOWN == <<"U","n","k","n","o","w","n">>
NO_ABSTRACT ==
    <<"N","o"," ","a","b","s","t","r","a","c","t"," ","a","v","a","i","l","a","b","l","e">>
L_TITLE == <<"T","i","t","l","e",":"," ">>
L_AUTHORS == <<"A","u","t","h","o","r","s",":"," ">>
L_PUBLISHED == <<"P","u","b","l","i","s","h","e","d",":"," ">>
L_ABSTRACT == <<"A","b","s","t","r","a","c","t",":"," ">>

Quoted(s) == <<QUOTE>> \o s \o <<QUOTE>>
Member(k, vtext) == Quoted(k) \o <<":">> \o vtext
RECURSIVE JoinComma(_)
JoinComma(ms) ==
    IF ms = <<>> THEN <<>>
    ELSE IF Len(ms) = 1 THEN ms[1]
    ELSE ms[1] \o <<",">> \o JoinComma(Tail(ms))
Object(ms) == <<"{">> \o JoinComma(ms) \o <<"}">>

\* a reply that wraps j in a fenced code block with the json tag, or bare
WrapJson(j) == FENCE_JSON \o <<"\n">> \o j \o <<"\n">> \o FENCE
WrapBare(j) == FENCE \o <<"\n">> \o j \o <<"\n">> \o FENCE

\* a reply in the format the prompt asks for
J_GOOD ==
    Object(<<Member(K_relevance_score, <<"9">>), Member(K_maturity_level, <<"2">>),
             Member(K_credibility_score, <<"7">>), Member(K_integration_score, <<"3">>),
             Member(K_chinese_defense, <<"t","r","u","e">>)>>)
\* a reply whose numbers are outside the ranges the prompt asks for
J_RANGE ==
    Object(<<Member(K_relevance_score, <<"1","1">>), Member(K_maturity_level, <<"0">>),
             Member(K_credibility_score, <<"7">>), Member(K_integration_score, <<"3">>),
             Member(K_chinese_defense, <<"f","a","l","s","e">>)>>)
\* a reply with keys the PaperRecord has too, and its own tokens_used
J_CLASH ==
    Object(<<Member(K_title, Quoted(<<"Z">>)), Member(K_relevance_score, <<"4">>),
             Member(K_tokens_used, <<"7">>)>>)
\* a reply with a fence inside a string value
J_TICK ==
    Object(<<Member(K_reasoning,
                    Quoted(<<"x">> \o FENCE \o <<"{","}">> \o FENCE \o <<"y">>))>>)
NOT_JSON == <<"S","o","r","r","y">>
J_NUM == <<"5">>

JsonObjectTexts == {J_GOOD, J_RANGE, J_CLASH, J_TICK}

Msg(text, i, o) == [text |-> text, input_tokens |-> i, output_tokens |-> o]
NoMsg == Msg(<<>>, 0, 0)

\* the messages client.messages.create can return
Messages ==
    { Msg(J_GOOD, 10, 2), Msg(J_GOOD, 20, 5), Msg(J_RANGE, 10, 2),
      Msg(J_CLASH, 10, 2), Msg(J_TICK, 10, 2), Msg(NOT_JSON, 10, 2),
      Msg(J_NUM, 10, 2), Msg(WrapJson(J_GOOD), 10, 2),
      Msg(WrapBare(J_CLASH), 20, 5), Msg(WrapJson(J_TICK), 10, 2) }

\* rows of the curated store: a title cell filled, and a title cell empty
ROW_A ==
    (K_title :> StrV(<<"A">>)) @@ (K_authors :> StrV(<<"X">>))
        @@ (K_source :> StrV(<<"a","x">>))
ROW_EMPTY ==
    (K_title :> NaN) @@ (K_authors :> StrV(<<"X">>))
        @@ (K_source :> StrV(<<"a","x">>))
RowKinds == {ROW_A, ROW_EMPTY}
\* a row an earlier scoring run left in the scored store
ROW_OLD == (K_title :> StrV(<<"O">>)) @@ (K_relevance_score :> IntV(1))

SeqsUpTo(S, n) == UNION {[1..k -> S] : k \in 0..n}

File(rows) == [exists |-> TRUE, rows |-> rows]
NoFile == [exists |-> FALSE, rows |-> <<>>]

\* os.getenv("ANTHROPIC_API_KEY"): None, an empty string, or a key
ApiKeys == {NullV, StrV(<<>>), StrV(<<"k">>)}

\* the titles an Excel sheet or a not-found file can hold: texts, and a cell
\* pandas reads as a number
TitleVals == {StrV(<<"A">>), StrV(<<"B">>), IntV(7)}
Urls == {<<"u","1">>, <<"u","2">>}
TitleRow(v) == (K_title :> v)

----------------------------------------------------------------------------
(* State *)

VARIABLES
    stage,          \* the entry point that runs: "scorer", "excel", "semantic"
    pc,             \* where the entry point is
    exit_code,      \* the process's exit code, -1 while it runs
    interrupted,    \* the run was ended from outside (KeyboardInterrupt)
    curated_file,   \* data/raw/curated_papers.csv
    scored_file,    \* data/processed/scored_papers.csv
    notfound_file,  \* data/raw/papers_not_found.csv
    excel_file,     \* the Excel sheet of titles
    api_key,        \* ANTHROPIC_API_KEY in the environment
    df,             \* score_papers_batch: the rows read from input_csv
    idx,            \* the position of the loop in df
    paper,          \* row.to_dict() of the current row
    message,        \* the message of the current record's completion call
    scores,         \* what score_paper returned for the current record
    scored_papers,
    total_tokens,
    calls,          \* the completion calls issued, by position in df
    outstanding,    \* completion calls issued and not yet returned
    attempts,       \* per record attempted: the message and score_paper's return
    log,            \* the failure lines printed
    sleeps,         \* pacing delays taken
    writes,         \* writes of the scored store in this run
    scored0,        \* the scored store as it was before the run
    curated0,       \* the curated store as it was before the run
    notfound0,      \* the not-found file as it was before the run
    arxiv_file,     \* data/raw/arxiv_papers_{timestamp}.csv of this run
    prompt,         \* the prompt of the current record's completion call
    report,         \* the summary printed at the end of a scoring run
    titles,         \* title-lookup runs: the titles to look up
    tidx,
    papers,         \* found papers (found_papers of the recovery pass)
    not_found       \* titles not found (still_not_found of the recovery pass)

vars == <<stage, pc, exit_code, interrupted, curated_file, scored_file,
          notfound_file, excel_file, api_key, df, idx, paper, message, scores,
          scored_papers, total_tokens, calls, outstanding, attempts, log,
          sleeps, writes, scored0, curated0, notfound0, arxiv_file, prompt,
          report, titles, tidx, papers, not_found>>

files == <<curated_file, scored_file, notfound_file, excel_file, arxiv_file>>
before == <<scored0, curated0, notfound0>>
scorer_vars == <<df, idx, paper, message, scores, scored_papers, total_tokens,
                 calls, outstanding, attempts, log, sleeps, writes, prompt,
                 report>>
lookup_vars == <<titles, tidx, papers, not_found>>

----------------------------------------------------------------------------
(* analysis/paper_scorer.py *)

Ret(kind, d) == [kind |-> kind, d |-> d]
NoRet == Ret("None", EmptyDict)

\* str(v) of a cell, as str.format renders it: a float NaN renders as nan
DIGIT_CHARS == <<"0","1","2","3","4","5","6","7","8","9">>
RECURSIVE IntText(_)
IntText(n) ==
    IF n < 10 THEN <<DIGIT_CHARS[n + 1]>>
    ELSE IntText(n \div 10) \o <<DIGIT_CHARS[(n % 10) + 1]>>
Str(v) ==
    CASE v.t = "str" -> v.s
      [] v.t = "nan" -> <<"n","a","n">>
      [] v.t = "int" -> IntText(v.n)

\* scoring_rubric.py lines 9-13: the lines of SCORING_PROMPT that take the
\* four fields of the paper
PaperInformation(title, authors, published, abstract) ==
    L_TITLE \o title \o <<"\n">> \o L_AUTHORS \o authors \o <<"\n">>
        \o L_PUBLISHED \o published \o <<"\n">> \o L_ABSTRACT \o abstract
        \o <<"\n">>

\* scoring_rubric.py lines 70-77
get_scoring_prompt(p) ==
    PaperInformation(Str(Get(p, K_title, StrV(UNKNOWN))),
                     Str(Get(p, K_authors, StrV(UNKNOWN))),
                     Str(Get(p, K_published, StrV(UNKNOWN))),
                     Str(Get(p, K_abstract, StrV(NO_ABSTRACT))))

\* lines 46-51: the value json.loads gives for the reply, if any
ParseReply(response_text) == JsonLoads(Strip(StripFence(response_text)))

\* usage.input_tokens + usage.output_tokens, still counted with the input
\* tokens alone
TokensInputOnly(msg) == msg.input_tokens
\* line 54: usage.input_tokens + usage.output_tokens
TokensUsed(msg) == msg.input_tokens + msg.output_tokens

\* score_paper once the call has returned msg (lines 42-65).  "ok": the dict
\* returned; "ParseError": json.JSONDecodeError handled, None returned;
\* "ApiError": another exception handled, None returned (item assignment on
\* a parsed value that is no dict raises TypeError); "TypeError": the
\* JSONDecodeError handler itself raises, slicing a title that is no str
\* (line 59), and the exception leaves score_paper.
ScorePaper(p, msg) ==
    LET r == ParseReply(msg.text)
    IN  IF ~r.ok
        THEN IF Get(p, K_title, StrV(UNKNOWN)).t = "str"
             THEN Ret("ParseError", EmptyDict)
             ELSE Ret("TypeError", EmptyDict)
        ELSE IF r.val.t # "obj" THEN Ret("ApiError", EmptyDict)
        ELSE Ret("ok", SetItem(r.val.o, K_tokens_used, IntV(TokensUsed(msg))))

\* the return value is truthy (line 105)
Truthy(ret) == ret.kind = "ok" /\ DOMAIN ret.d # {}

\* {**scores, **paper}: the paper's values win
CombinePaperWins(p, d) ==
    [k \in (DOMAIN p) \cup (DOMAIN d) |-> IF k \in DOMAIN p THEN p[k] ELSE d[k]]
\* line 107: {**paper, **scores}
Combine(p, d) ==
    [k \in (DOMAIN p) \cup (DOMAIN d) |-> IF k \in DOMAIN d THEN d[k] ELSE p[k]]

\* every record is appended, a failed one with no scores
CollectAll(sp, p, ret) == Append(sp, Combine(p, ret.d))
\* lines 105-108
Collect(sp, p, ret) == IF Truthy(ret) THEN Append(sp, Combine(p, ret.d)) ELSE sp

\* total_tokens = scores.get('tokens_used', 0): the last record's tokens
\* replace the total
AddTokensLast(total, ret) ==
    IF Truthy(ret) THEN Get(ret.d, K_tokens_used, IntV(0)).n ELSE total
\* line 109: total_tokens += scores.get('tokens_used', 0)
AddTokens(total, ret) ==
    IF Truthy(ret) THEN total + Get(ret.d, K_tokens_used, IntV(0)).n ELSE total

\* a loop that tries a failed record again
NextIdxRetry(i, ret) == IF ret.kind = "ok" THEN i + 1 ELSE i
\* line 100: the for loop goes on to the next row, whatever was returned
NextIdx(i, ret) == i + 1

\* a loop that stops one row early
LoopDoneEarly(i, rows) == i >= Len(rows)
\* line 100: the rows are exhausted
LoopDone(i, rows) == i > Len(rows)

\* the credential is never checked
NoKeyUnchecked(k) == FALSE
\* line 88: not api_key
NoKey(k) == k.t = "null" \/ k.s = <<>>

\* pd.DataFrame(list of dicts): one row per dict over the union of the keys,
\* NaN where a dict has no such key
DataFrame(recs) ==
    LET cols == UNION {DOMAIN recs[i] : i \in 1..Len(recs)}
    IN  [i \in 1..Len(recs) |->
            [c \in cols |-> IF c \in DOMAIN recs[i] THEN recs[i][c] ELSE NaN]]

Columns(rows) == UNION {DOMAIN rows[i] : i \in 1..Len(rows)}

StatsColumns == {K_relevance_score, K_maturity_level, K_credibility_score,
                 K_integration_score, K_chinese_defense}

\* lines 131-147 raise: a column the summary reads is missing (KeyError), a
\* value in it is no number (TypeError), or the title of a row printed is no
\* str (TypeError).  With at most TopN rows every row is printed.
StatsRaises(rows) ==
    /\ Len(rows) > 0
    /\ \/ ~(StatsColumns \cup {K_title} \subseteq Columns(rows))
       \/ \E i \in 1..Len(rows) : \E c \in StatsColumns :
              rows[i][c].t \in {"str", "obj"}
       \/ \E i \in 1..Len(rows) : i <= TopN /\ rows[i][K_title].t # "str"

\* the scored store is left as it was when no record was scored
to_csv_if_any(old, sp) == IF sp = <<>> THEN old ELSE File(DataFrame(sp))
\* lines 115-119: scored_df.to_csv(output_csv) replaces the store old
to_csv(old, sp) == File(DataFrame(sp))

\* the price per million tokens of the estimate (line 127)
PRICE_PER_MTOK == 3
\* line 127: (total_tokens / 1_000_000) * 3, in millionths of a dollar
EstimatedCost(total) == total * PRICE_PER_MTOK
\* line 127: the format .4f, the nearest ten-thousandth of a dollar of an
\* amount in millionths.  An amount half way between two is 50, 150, ...
\* tokens; the double of 50 tokens lies above the half and is printed up.
Format4(micro) == (micro + 50) \div 100

NoReport == [printed |-> FALSE, scored |-> 0, attempted |-> 0,
             total_tokens |-> 0, cost |-> 0]
\* lines 121-128: Papers scored: scored/attempted, Total tokens used,
\* Estimated cost
Summary(sp, rows, total) ==
    [printed |-> TRUE, scored |-> Len(sp), attempted |-> Len(rows),
     total_tokens |-> total, cost |-> Format4(EstimatedCost(total))]

Exit(code) == pc' = "exited" /\ exit_code' = code

\* lines 151-161
ScorerMain ==
    /\ stage = "scorer" /\ pc = "start"
    /\ IF ~curated_file.exists THEN Exit(1) ELSE pc' = "load" /\ exit_code' = exit_code
    /\ UNCHANGED <<stage, interrupted, files, api_key, scorer_vars, before, lookup_vars>>

\* lines 77-98, with max_papers None (line 169): read the CSV, then the
\* credential; without it the function returns and the process ends
ScorerLoad ==
    /\ pc = "load"
    /\ df' = curated_file.rows
    /\ IF NoKey(api_key)
       THEN /\ Exit(0)
            /\ log' = Append(log, [idx |-> 0, kind |-> "MissingCredential"])
       ELSE /\ pc' = "loop" /\ exit_code' = exit_code
            /\ log' = log
    /\ idx' = 1 /\ scored_papers' = <<>> /\ total_tokens' = 0
    /\ UNCHANGED <<stage, interrupted, files, api_key, paper, message, scores,
                   calls, outstanding, attempts, sleeps, writes, prompt,
                   report, before, lookup_vars>>

\* lines 100-103 and 31-40: the next row, its prompt, the call goes out
IssueCall ==
    /\ pc = "loop" /\ ~LoopDone(idx, df)
    /\ paper' = df[idx]
    /\ prompt' = get_scoring_prompt(df[idx])
    /\ calls' = Append(calls, idx)
    /\ outstanding' = outstanding + 1
    /\ pc' = "call"
    /\ UNCHANGED <<stage, exit_code, interrupted, files, api_key, df, idx,
                   message, scores, scored_papers, total_tokens, attempts, log,
                   sleeps, writes, report, before, lookup_vars>>

\* what the loop does with score_paper's return (lines 103-109)
AfterScorePaper(msg, ret) ==
    /\ message' = msg
    /\ outstanding' = outstanding - 1
    /\ attempts' = Append(attempts, [msg |-> msg, ret |-> ret])
    /\ IF ret.kind = "TypeError"
       THEN /\ Exit(1)
            /\ UNCHANGED <<scores, scored_papers, total_tokens, log>>
       ELSE /\ pc' = "sleep" /\ exit_code' = exit_code
            /\ scores' = ret
            /\ scored_papers' = Collect(scored_papers, paper, ret)
            /\ total_tokens' = AddTokens(total_tokens, ret)
            /\ log' = IF ret.kind = "ok" THEN log
                      ELSE Append(log, [idx |-> idx, kind |-> ret.kind])
    /\ UNCHANGED <<stage, interrupted, files, api_key, df, idx, paper, calls,
                   sleeps, writes, prompt, report, before, lookup_vars>>

\* the call returns a message (lines 42-61, then 105-109)
CallReturn ==
    /\ pc = "call"
    /\ \E msg \in Messages : AfterScorePaper(msg, ScorePaper(paper, msg))

\* the call raises, or the message has no content (lines 63-65)
CallRaise ==
    /\ pc = "call"
    /\ AfterScorePaper(NoMsg, Ret("ApiError", EmptyDict))

\* line 112, and the loop goes on
Sleep ==
    /\ pc = "sleep"
    /\ sleeps' = sleeps + 1
    /\ idx' = NextIdx(idx, scores)
    /\ pc' = "loop"
    /\ UNCHANGED <<stage, exit_code, interrupted, files, api_key, df, paper,
                   message, scores, scored_papers, total_tokens, calls,
                   outstanding, attempts, log, writes, prompt, report, before,
                   lookup_vars>>

\* lines 114-119: the scored store is replaced
WriteStore ==
    /\ pc = "loop" /\ LoopDone(idx, df)
    /\ scored_file' = to_csv(scored_file, scored_papers)
    /\ writes' = writes + 1
    /\ pc' = "stats"
    /\ UNCHANGED <<stage, exit_code, interrupted, curated_file, notfound_file,
                   excel_file, arxiv_file, api_key, df, idx, paper, message,
                   scores, scored_papers, total_tokens, calls, outstanding,
                   attempts, log, sleeps, prompt, report, before, lookup_vars>>

\* lines 121-149 and the end of the process
Stats ==
    /\ pc = "stats"
    /\ report' = Summary(scored_papers, df, total_tokens)
    /\ Exit(IF StatsRaises(scored_file.rows) THEN 1 ELSE 0)
    /\ UNCHANGED <<stage, interrupted, files, api_key, df, idx, paper, message,
                   scores, scored_papers, total_tokens, calls, outstanding,
                   attempts, log, sleeps, writes, prompt, before, lookup_vars>>

\* the process is ended from outside while it runs; neither handler of
\* score_paper catches KeyboardInterrupt
Interrupt ==
    /\ pc # "exited"
    /\ Exit(130)
    /\ interrupted' = TRUE
    /\ UNCHANGED <<stage, files, api_key, scorer_vars, before, lookup_vars>>

----------------------------------------------------------------------------
(* fetch_from_excel.py *)

PaperOf(title, url, source, search_title) ==
    (K_title :> title) @@ (K_url :> StrV(url)) @@ (K_source :> StrV(source))
        @@ (K_search_title :> search_title)

SRC_ARXIV == <<"a","r","x","i","v">>
SRC_SCHOLAR == <<"g","o","o","g","l","e","_","s","c","h","o","l","a","r">>
SRC_SEMANTIC == <<"s","e","m","a","n","t","i","c","_","s","c","h","o","l","a","r">>

\* search_paper_by_title (lines 11-74): the first arXiv match, else the first
\* Google Scholar match, else None
SearchPaperByTitle(title) ==
    {Ret("ok", PaperOf(title, u, SRC_ARXIV, title)) : u \in Urls}
        \cup {Ret("ok", PaperOf(title, u, SRC_SCHOLAR, title)) : u \in {<<"u","1">>}}
        \cup {NoRet}

\* lines 189-209
ExcelMain ==
    /\ stage = "excel" /\ pc = "start"
    /\ IF ~excel_file.exists THEN Exit(1) ELSE pc' = "x_read" /\ exit_code' = exit_code
    /\ UNCHANGED <<stage, interrupted, files, api_key, scorer_vars, before, lookup_vars>>

\* lines 84-122: the titles of the sheet, without its empty cells
ExcelRead ==
    /\ pc = "x_read"
    /\ titles' = [i \in 1..Len(excel_file.rows) |-> excel_file.rows[i][K_title]]
    /\ tidx' = 1 /\ papers' = <<>> /\ not_found' = <<>>
    /\ pc' = "x_loop"
    /\ UNCHANGED <<stage, exit_code, interrupted, files, api_key, scorer_vars, before>>

\* lines 124-135: one title is looked up; slicing a title that is no str
\* (line 22) raises outside every handler
ExcelSearch ==
    /\ pc = "x_loop" /\ tidx <= Len(titles)
    /\ IF titles[tidx].t # "str"
       THEN Exit(1) /\ UNCHANGED lookup_vars
       ELSE /\ \E r \in SearchPaperByTitle(titles[tidx]) :
                  IF r.kind = "ok"
                  THEN papers' = Append(papers, r.d) /\ not_found' = not_found
                  ELSE not_found' = Append(not_found, titles[tidx]) /\ papers' = papers
            /\ tidx' = tidx + 1
            /\ UNCHANGED <<pc, exit_code, titles>>
    /\ UNCHANGED <<stage, interrupted, files, api_key, scorer_vars, before>>

\* lines 137-187: the found papers replace the curated store, the titles not
\* found replace the not-found file; returning papers_df raises
\* UnboundLocalError when no paper was found
ExcelSave ==
    /\ pc = "x_loop" /\ tidx > Len(titles)
    /\ curated_file' = IF papers # <<>> THEN File(DataFrame(papers)) ELSE curated_file
    /\ notfound_file' = IF not_found # <<>>
                        THEN File([i \in 1..Len(not_found) |-> TitleRow(not_found[i])])
                        ELSE notfound_file
    /\ Exit(IF papers # <<>> THEN 0 ELSE 1)
    /\ UNCHANGED <<stage, interrupted, scored_file, excel_file, arxiv_file,
                   api_key, scorer_vars, before, lookup_vars>>

----------------------------------------------------------------------------
(* fetch_missing_semantic.py *)

\* search_semantic_scholar (lines 9-48): the first match, else None
SearchSemanticScholar(title) ==
    {Ret("ok", (K_title :> title) @@ (K_url :> StrV(u)) @@ (K_source :> StrV(SRC_SEMANTIC))) :
        u \in Urls} \cup {NoRet}

\* lines 53-69: without the not-found file the function returns, and the
\* process ends with the exit code of a normal end
SemanticRead ==
    /\ stage = "semantic" /\ pc = "start"
    /\ IF ~notfound_file.exists
       THEN Exit(0) /\ UNCHANGED lookup_vars
       ELSE /\ titles' = [i \in 1..Len(notfound_file.rows) |-> notfound_file.rows[i][K_title]]
            /\ tidx' = 1 /\ papers' = <<>> /\ not_found' = <<>>
            /\ pc' = "s_loop" /\ exit_code' = exit_code
    /\ UNCHANGED <<stage, interrupted, files, api_key, scorer_vars, before>>

\* lines 71-83: one title is looked up; slicing a title that is no str
\* (line 72) raises
SemanticSearch ==
    /\ pc = "s_loop" /\ tidx <= Len(titles)
    /\ IF titles[tidx].t # "str"
       THEN Exit(1) /\ UNCHANGED lookup_vars
       ELSE /\ \E r \in SearchSemanticScholar(titles[tidx]) :
                  IF r.kind = "ok"
                  THEN papers' = Append(papers, r.d) /\ not_found' = not_found
                  ELSE not_found' = Append(not_found, titles[tidx]) /\ papers' = papers
            /\ tidx' = tidx + 1
            /\ UNCHANGED <<pc, exit_code, titles>>
    /\ UNCHANGED <<stage, interrupted, files, api_key, scorer_vars, before>>

\* lines 85-114: the found papers are appended to the curated store; the
\* not-found file is rewritten only when a title is still missing
SemanticSave ==
    /\ pc = "s_loop" /\ tidx > Len(titles)
    /\ curated_file' =
           IF papers = <<>> THEN curated_file
           ELSE IF curated_file.exists THEN File(DataFrame(curated_file.rows \o papers))
           ELSE File(DataFrame(papers))
    /\ notfound_file' = IF not_found # <<>>
                        THEN File([i \in 1..Len(not_found) |-> TitleRow(not_found[i])])
                        ELSE notfound_file
    /\ Exit(0)
    /\ UNCHANGED <<stage, interrupted, scored_file, excel_file, arxiv_file,
                   api_key, scorer_vars, before, lookup_vars>>

----------------------------------------------------------------------------
(* collectors/arxiv_collector.py *)

\* lines 34-38: the queries of main
NumQueries == 3

\* lines 19-26: the record of a result; its url is the entry id
ArxivPaper(title, url) == (K_title :> StrV(title)) @@ (K_url :> StrV(url))
\* the results arXiv has: one entry id is one paper
ArxivResults == {ArxivPaper(<<"A">>, <<"u","1">>), ArxivPaper(<<"B">>, <<"u","2">>)}

\* line 49: df.drop_duplicates(subset=[key]) keeps the first row of every
\* value of the column
drop_duplicates(rows, key) ==
    LET kept == {i \in 1..Len(rows) : \A j \in 1..(i - 1) : rows[j][key] # rows[i][key]}
        nth(r) == CHOOSE i \in kept : Cardinality({j \in kept : j <= i}) = r
    IN  [r \in 1..Cardinality(kept) |-> rows[nth(r)]]

\* lines 33-41 and 64-68
ArxivMain ==
    /\ stage = "arxiv" /\ pc = "start"
    /\ tidx' = 1 /\ papers' = <<>>
    /\ pc' = "a_loop"
    /\ UNCHANGED <<stage, exit_code, interrupted, files, api_key, scorer_vars,
                   before, titles, not_found>>

\* lines 43-46 and 9-31: the results of one query are added to all_papers
ArxivSearch ==
    /\ pc = "a_loop" /\ tidx <= NumQueries
    /\ \E found \in SeqsUpTo(ArxivResults, MaxResults) : papers' = papers \o found
    /\ tidx' = tidx + 1
    /\ UNCHANGED <<stage, pc, exit_code, interrupted, files, api_key,
                   scorer_vars, before, titles, not_found>>

\* lines 48-62: the rows without the repeated urls go to a new file; with no
\* result at all the frame has no url column and drop_duplicates raises
\* KeyError
ArxivSave ==
    /\ pc = "a_loop" /\ tidx > NumQueries
    /\ IF papers = <<>>
       THEN Exit(1) /\ arxiv_file' = arxiv_file
       ELSE /\ arxiv_file' = File(drop_duplicates(DataFrame(papers), K_url))
            /\ Exit(0)
    /\ UNCHANGED <<stage, interrupted, curated_file, scored_file, notfound_file,
                   excel_file, api_key, scorer_vars, before, lookup_vars>>

----------------------------------------------------------------------------
(* The runs *)

TitleFiles == {File([i \in DOMAIN ts |-> TitleRow(ts[i])]) : ts \in SeqsUpTo(TitleVals, MaxTitles)}

InitFiles ==
    \/ /\ stage = "arxiv"
       /\ curated_file \in {NoFile, File(<<ROW_A>>)}
       /\ scored_file = NoFile
       /\ notfound_file = NoFile
       /\ excel_file = NoFile
       /\ api_key = NullV
    \/ /\ stage = "scorer"
       /\ curated_file \in {NoFile} \cup {File(rows) : rows \in SeqsUpTo(RowKinds, MaxPapers)}
       /\ scored_file \in {NoFile, File(<<ROW_OLD>>)}
       /\ notfound_file = NoFile
       /\ excel_file = NoFile
       /\ api_key \in ApiKeys
    \/ /\ stage = "excel"
       /\ excel_file \in {NoFile} \cup TitleFiles
       /\ curated_file \in {NoFile, File(<<ROW_A>>)}
       /\ notfound_file \in {NoFile, File(<<TitleRow(StrV(<<"C">>))>>)}
       /\ scored_file = NoFile
       /\ api_key = NullV
    \/ /\ stage = "semantic"
       /\ notfound_file \in {NoFile} \cup TitleFiles
       /\ curated_file \in {NoFile, File(<<ROW_A>>)}
       /\ excel_file = NoFile
       /\ scored_file = NoFile
       /\ api_key = NullV

Init ==
    /\ stage \in {"scorer", "excel", "semantic", "arxiv"}
    /\ InitFiles
    /\ arxiv_file = NoFile
    /\ pc = "start" /\ exit_code = -1 /\ interrupted = FALSE
    /\ df = <<>> /\ idx = 0 /\ paper = EmptyDict /\ message = NoMsg
    /\ scores = NoRet /\ scored_papers = <<>> /\ total_tokens = 0
    /\ calls = <<>> /\ outstanding = 0 /\ attempts = <<>> /\ log = <<>>
    /\ sleeps = 0 /\ writes = 0
    /\ scored0 = scored_file /\ curated0 = curated_file /\ notfound0 = notfound_file
    /\ prompt = <<>> /\ report = NoReport
    /\ titles = <<>> /\ tidx = 0 /\ papers = <<>> /\ not_found = <<>>

Next ==
    \/ ScorerMain \/ ScorerLoad \/ IssueCall \/ CallReturn \/ CallRaise
    \/ Sleep \/ WriteStore \/ Stats
    \/ ExcelMain \/ ExcelRead \/ ExcelSearch \/ ExcelSave
    \/ SemanticRead \/ SemanticSearch \/ SemanticSave
    \/ ArxivMain \/ ArxivSearch \/ ArxivSave
    \/ Interrupt

Spec == Init /\ [][Next]_vars

----------------------------------------------------------------------------
(* Properties *)

\* the records attempted so far that score_paper returned a dict for
OkAttempts == {i \in 1..Len(attempts) : attempts[i].ret.kind = "ok"}
FailedAttempts == {i \in 1..Len(attempts) : attempts[i].ret.kind # "ok"}
\* the position in scored_papers of the record of attempt i
Rank(i) == Cardinality({j \in OkAttempts : j <= i})
\* the attempt behind the k-th scored record
Nth(k) == CHOOSE i \in OkAttempts : Rank(i) = k
InRange(v, lo, hi) == v.t = "int" /\ v.n >= lo /\ v.n <= hi
Written == stage = "scorer" /\ writes >= 1

\* C1: every ScoredRecord the run puts in the scored store has
\* relevance_score in 0..10, maturity_level in 1..5, credibility_score in
\* 0..10 and integration_score in 0..10.
C1_ScoresInRange ==
    Written =>
        \A k \in 1..Len(scored_file.rows) :
            LET row == scored_file.rows[k]
            IN  /\ {K_relevance_score, K_maturity_level, K_credibility_score,
                    K_integration_score} \subseteq DOMAIN row
                /\ InRange(row[K_relevance_score], 0, 10)
                /\ InRange(row[K_maturity_level], 1, 5)
                /\ InRange(row[K_credibility_score], 0, 10)
                /\ InRange(row[K_integration_score], 0, 10)

\* C2: when the run has written the store, every record was attempted, the
\* store holds exactly (attempted - failed) rows, and its k-th row is the
\* record of the k-th attempt that did not fail, with that attempt's token
\* count: no failed record is kept, no other record is missing or repeated.
C2_StoreCount ==
    Written =>
        /\ Len(attempts) = Len(df)
        /\ Len(scored_file.rows) = Len(attempts) - Cardinality(FailedAttempts)
        /\ \A k \in 1..Len(scored_file.rows) :
               /\ k <= Cardinality(OkAttempts)
               /\ scored_file.rows[k][K_source] = df[Nth(k)][K_source]
               /\ scored_file.rows[k][K_tokens_used] =
                      IntV(attempts[Nth(k)].msg.input_tokens
                               + attempts[Nth(k)].msg.output_tokens)

\* a run that wrote the store after a reply that did not parse and one that did
C2_Witness ==
    /\ Written
    /\ \E i \in FailedAttempts : attempts[i].ret.kind = "ParseError"
    /\ OkAttempts # {}

\* C3: once the loop has started, a run that is not ended from outside
\* attempts every record, logs every failure and writes the store.
C3_NoAbort ==
    (stage = "scorer" /\ pc = "exited" /\ ~interrupted /\ calls # <<>>) =>
        /\ Len(attempts) = Len(df)
        /\ \A i \in FailedAttempts : \E l \in 1..Len(log) : log[l].idx = i
        /\ writes = 1

\* C4: for a reply that is a JSON object text, the same text wrapped in a
\* fenced code block, with the json tag or bare, parses to the same object.
C4_FenceTransparent ==
    (stage = "scorer" /\ message.text \in JsonObjectTexts) =>
        LET plain == ParseReply(message.text)
            tagged == ParseReply(WrapJson(message.text))
            bare == ParseReply(WrapBare(message.text))
        IN  /\ tagged.ok = plain.ok /\ tagged.val = plain.val
            /\ bare.ok = plain.ok /\ bare.val = plain.val

\* C5: the ScoredRecord of every successfully scored record has tokens_used
\* equal to the input plus the output tokens of that record's call, and every
\* other key of the parsed reply with the reply's value (checked against the
\* reply when the record has just been scored, and against what was kept of
\* it afterwards); the same holds of its row in the store once written.
C5_TokensAndScores ==
    /\ (pc = "sleep" /\ scores.kind = "ok") =>
           LET parsed == ParseReply(message.text).val.o
               rec == scored_papers[Len(scored_papers)]
           IN  /\ rec[K_tokens_used] =
                      IntV(message.input_tokens + message.output_tokens)
               /\ \A k \in (DOMAIN parsed) \ {K_tokens_used} : rec[k] = parsed[k]
               /\ attempts[Len(attempts)] = [msg |-> message, ret |-> scores]
    /\ \A i \in OkAttempts :
           LET a == attempts[i]
               holds(r) ==
                   /\ r[K_tokens_used] =
                          IntV(a.msg.input_tokens + a.msg.output_tokens)
                   /\ \A k \in (DOMAIN a.ret.d) \ {K_tokens_used} : r[k] = a.ret.d[k]
           IN  /\ Rank(i) <= Len(scored_papers)
               /\ holds(scored_papers[Rank(i)])
               /\ Written => holds(scored_file.rows[Rank(i)])

\* a stored record whose reply carried a tokens_used of its own
C5_Witness ==
    /\ Written
    /\ \E i \in OkAttempts :
           /\ K_tokens_used \in DOMAIN ParseReply(attempts[i].msg.text).val.o
           /\ attempts[i].msg.input_tokens + attempts[i].msg.output_tokens = 25

\* C6: a ScoredRecord has the keys of its PaperRecord and of the parsed
\* reply; a key of the reply has the reply's value, a key of the PaperRecord
\* alone keeps its value; the rows read and the curated store do not change.
C6_Merge ==
    /\ \A i \in OkAttempts :
           LET rec == scored_papers[Rank(i)]
               d == attempts[i].ret.d
           IN  /\ DOMAIN rec = (DOMAIN df[i]) \cup (DOMAIN d)
               /\ \A k \in DOMAIN d : rec[k] = d[k]
               /\ \A k \in (DOMAIN df[i]) \ (DOMAIN d) : rec[k] = df[i][k]
    /\ (stage = "scorer" /\ idx >= 1) => df = curated_file.rows
    /\ pc \in {"call", "sleep"} => paper = df[idx]

\* a record scored with a reply that has a title of its own
C6_Witness ==
    \E i \in OkAttempts :
        /\ K_title \in DOMAIN ParseReply(attempts[i].msg.text).val.o
        /\ df[i][K_title] = StrV(<<"A">>)
        /\ scored_papers[Rank(i)][K_title] = StrV(<<"Z">>)
        /\ scored_papers[Rank(i)][K_source] = StrV(<<"a","x">>)

\* C7: the scored store is as it was before the run until the one write, which
\* comes when every record has been attempted and no call is outstanding, and
\* after it the store holds this run's successes and nothing else.
C7_WriteOnceAtEnd ==
    stage = "scorer" =>
        /\ writes <= 1
        /\ writes = 0 => scored_file = scored0
        /\ writes = 1 =>
               /\ Len(calls) = Len(df) /\ Len(attempts) = Len(df) /\ outstanding = 0
               /\ pc \in {"stats", "exited"}
               /\ scored_file.exists
               /\ Len(scored_file.rows) = Cardinality(OkAttempts)
               /\ \A k \in 1..Len(scored_file.rows) :
                      scored_file.rows[k][K_title] = scored_papers[k][K_title]

\* a run that replaced an older store after a failure and a success
C7_Witness ==
    /\ Written /\ scored0 = File(<<ROW_OLD>>) /\ scored_file # scored0
    /\ FailedAttempts # {} /\ OkAttempts # {}

\* C8: the completion calls of a run are for rising positions of the input,
\* so no record is called twice; at most one call is outstanding, and a call
\* goes out only when every earlier one has returned.
C8_OneCallPerRecord ==
    /\ \A i, j \in 1..Len(calls) : i < j => calls[i] < calls[j]
    /\ outstanding \in {0, 1}
    /\ Len(calls) = Len(attempts) + outstanding

\* a second record called after the first one failed
C8_Witness ==
    /\ Len(calls) >= 2
    /\ 1 \in FailedAttempts
    /\ attempts[1].ret.kind \in {"ParseError", "ApiError"}

\* C9: with no credential in the environment the run makes no completion
\* call and leaves the scored store as it was, absent if it was absent; the
\* run reports the missing credential and ends.
C9_NoCredential ==
    (stage = "scorer" /\ api_key.t = "null") =>
        /\ calls = <<>> /\ outstanding = 0
        /\ writes = 0 /\ scored_file = scored0
        /\ pc \notin {"loop", "call", "sleep", "stats"}
        /\ (pc = "exited" /\ ~interrupted /\ curated_file.exists) =>
               \E l \in 1..Len(log) : log[l].kind = "MissingCredential"

\* a run over a store with rows that ended for want of the credential
C9_Witness ==
    /\ stage = "scorer" /\ api_key.t = "null"
    /\ pc = "exited" /\ ~interrupted
    /\ Len(df) > 0 /\ ~scored0.exists /\ ~scored_file.exists

InputMissing ==
    CASE stage = "scorer" -> ~curated_file.exists
      [] stage = "excel" -> ~excel_file.exists
      [] stage = "semantic" -> ~notfound_file.exists
      [] stage = "arxiv" -> FALSE

\* C10: an entry point that is not ended from outside ends with exit code 1
\* when its input file is missing and with exit code 0 otherwise.
C10_ExitCodes ==
    (pc = "exited" /\ ~interrupted) =>
        exit_code = (IF InputMissing THEN 1 ELSE 0)

\* C11: with a credential and an input store of zero records, the run makes
\* no completion call, and a run that is not ended from outside writes a
\* scored store with no record, whatever the store held before, and reports
\* 0/0 papers scored.
C11_EmptyInput ==
    (stage = "scorer" /\ curated_file = File(<<>>) /\ ~NoKey(api_key)) =>
        /\ calls = <<>> /\ outstanding = 0 /\ attempts = <<>>
        /\ writes = 1 => scored_file = File(<<>>)
        /\ (pc = "exited" /\ ~interrupted) =>
               /\ writes = 1 /\ scored_file = File(<<>>)
               /\ report.printed
               /\ report.scored = 0 /\ report.attempted = 0
               /\ exit_code = 0

\* a run over zero records that replaced an older store and printed its report
C11_Witness ==
    /\ stage = "scorer" /\ curated_file = File(<<>>) /\ ~NoKey(api_key)
    /\ pc = "exited" /\ ~interrupted
    /\ scored0 = File(<<ROW_OLD>>) /\ scored_file = File(<<>>)
    /\ report.printed

\* the rows a collection run that ended normally has persisted: the new file
\* of the arXiv collector, the curated store the Excel title fetcher wrote,
\* the rows the recovery pass added to the curated store
PersistedRows ==
    CASE stage = "arxiv" -> arxiv_file.rows
      [] stage = "excel" -> curated_file.rows
      [] stage = "semantic" ->
             SubSeq(curated_file.rows, Len(curated_file.rows) - Len(papers) + 1,
                    Len(curated_file.rows))
      [] OTHER -> <<>>

\* C12: when a collection run of an adapter has ended normally, no two of
\* the rows it persisted have the same url, and every url it found is the
\* url of one of them.
C12_UniqueUrls ==
    (stage \in {"arxiv", "excel", "semantic"} /\ pc = "exited" /\ exit_code = 0) =>
        /\ \A i, j \in 1..Len(PersistedRows) :
               i # j => PersistedRows[i][K_url] # PersistedRows[j][K_url]
        /\ \A i \in 1..Len(papers) :
               \E j \in 1..Len(PersistedRows) : PersistedRows[j][K_url] = papers[i][K_url]

\* row r is among rows, with every cell it has unchanged
Kept(r, rows) ==
    \E j \in 1..Len(rows) :
        \A k \in DOMAIN r : k \in DOMAIN rows[j] /\ rows[j][k] = r[k]

\* C13: no step of a run of the Excel title fetcher or of the recovery pass
\* takes a row out of the curated store or changes a cell of it: every row
\* of the store before the step is a row of the store after it.
C13_AppendOnly ==
    [][(stage \in {"excel", "semantic"} /\ curated_file.exists) =>
           /\ curated_file'.exists
           /\ \A i \in 1..Len(curated_file.rows) :
                  Kept(curated_file.rows[i], curated_file'.rows)]_vars

\* the titles the not-found file lists
Listed ==
    IF notfound_file.exists
    THEN {notfound_file.rows[i][K_title] : i \in 1..Len(notfound_file.rows)}
    ELSE {}
\* the titles this run did not resolve, and the titles it resolved
Unresolved == {not_found[i] : i \in 1..Len(not_found)}
Resolved == {Get(papers[i], K_search_title, papers[i][K_title]) : i \in 1..Len(papers)}

\* C14: when a title-lookup run has read its titles and ended normally, the
\* not-found file lists the titles the run did not resolve and no other
\* title, and every title of the run is either resolved or listed, never
\* both.
C14_NotFoundExact ==
    (stage \in {"excel", "semantic"} /\ pc = "exited" /\ exit_code = 0 /\ tidx >= 1) =>
        /\ Listed = Unresolved
        /\ \A i \in 1..Len(titles) :
               (titles[i] \in Listed) # (titles[i] \in Resolved)

\* the tokens of the calls of the first n attempts that were scored
RECURSIVE CallTokens(_)
CallTokens(n) ==
    IF n = 0 THEN 0
    ELSE CallTokens(n - 1)
             + (IF attempts[n].ret.kind = "ok"
                THEN attempts[n].msg.input_tokens + attempts[n].msg.output_tokens
                ELSE 0)
\* the sum of tokens_used over the first n scored records
RECURSIVE RecordTokens(_)
RecordTokens(n) ==
    IF n = 0 THEN 0 ELSE RecordTokens(n - 1) + scored_papers[n][K_tokens_used].n

\* C15: total_tokens is the sum of tokens_used over the records scored in
\* this run, which is the sum of the tokens of their calls, a failed record
\* adding nothing; the report prints that total, and as the estimate the
\* ten-thousandth of a dollar nearest to total / 1,000,000 times the price
\* per million tokens.
C15_CostEstimate ==
    stage = "scorer" =>
        /\ total_tokens = RecordTokens(Len(scored_papers))
        /\ total_tokens = CallTokens(Len(attempts))
        /\ report.printed =>
               /\ report.total_tokens = total_tokens
               /\ 100 * report.cost - 50 <= total_tokens * PRICE_PER_MTOK
               /\ total_tokens * PRICE_PER_MTOK <= 100 * report.cost + 50

\* a report after a scored record of 25 tokens and a failed one: the
\* estimate printed is 0.0001
C15_Witness ==
    /\ stage = "scorer" /\ report.printed
    /\ OkAttempts # {} /\ FailedAttempts # {}
    /\ report.total_tokens = 25 /\ report.cost = 1

\* C16: one pacing delay follows the attempt on every record, whatever its
\* outcome: a call goes out when every earlier attempt has had its delay, so
\* exactly one delay lies between two consecutive calls, and a run that is
\* not ended from outside has taken as many delays as it made attempts.
C16_PacingDelay ==
    stage = "scorer" =>
        /\ pc = "call" => sleeps = Len(calls) - 1
        /\ pc = "sleep" => sleeps = Len(attempts) - 1
        /\ pc \in {"loop", "stats"} => sleeps = Len(attempts)
        /\ (pc = "exited" /\ ~interrupted) => sleeps = Len(attempts)

\* the reply is wrapped in a fenced code block: it opens with a fence and
\* closes with one
FenceWrapped(text) ==
    LET t == Strip(text)
    IN  /\ Len(t) >= 2 * Len(FENCE)
        /\ SubSeq(t, 1, Len(FENCE)) = FENCE
        /\ SubSeq(t, Len(t) - Len(FENCE) + 1, Len(t)) = FENCE

\* C17: for a reply that is not wrapped in a fenced code block, the text
\* score_paper hands to json.loads is the reply as it is.
C17_UnwrappedVerbatim ==
    (stage = "scorer" /\ ~FenceWrapped(message.text)) =>
        Strip(StripFence(message.text)) = message.text

\* the field k of record p is missing: the column is absent, or the cell of
\* the row is empty
Missing(p, k) == k \notin DOMAIN p \/ p[k].t = "nan"
Rendered(p, k, placeholder) == IF Missing(p, k) THEN placeholder ELSE p[k].s

\* C18: the prompt of the record the loop has read renders each of title,
\* authors, published and abstract as the record's own value, and as its
\* placeholder when the field is missing for that record.
C18_Placeholders ==
    (stage = "scorer" /\ pc \in {"call", "sleep"}) =>
        prompt = PaperInformation(Rendered(df[idx], K_title, UNKNOWN),
                                  Rendered(df[idx], K_authors, UNKNOWN),
                                  Rendered(df[idx], K_published, UNKNOWN),
                                  Rendered(df[idx], K_abstract, NO_ABSTRACT))
====
